---- MODULE Spec2Model ----
(***************************************************************************)
(* Product Store Service (service/routes.py): the five REST handlers over  *)
(* the product table, one atomic action per HTTP request.                  *)
(*                                                                         *)
(* JSON values are written lexically as [t |-> type tag, v |-> text]; a    *)
(* decimal literal is the pair <<coefficient, scale>> (12.50 is            *)
(* <<1250, 2>>, 12.5 is <<125, 1>>).                                       *)
(***************************************************************************)
EXTENDS Integers, Sequences, FiniteSets, TLC

VARIABLES
    table,      \* the product table: sequence of rows in insertion order
    next_id,    \* the primary-key sequence of the table
    request,    \* the request served last
    response,   \* the response to it
    posted,     \* history: <<Location, body>> of each 201 with no PUT/DELETE of it since
    live,       \* history: <<id, payload>> of the latest successful POST/PUT per id
    deleted,    \* history: ids for which a DELETE answered 204
    trip,       \* a serialize/deserialize round trip between two instances
    workers     \* requests served concurrently, each at its own step

vars == <<table, next_id, request, response, posted, live, deleted, trip, workers>>

(***************************************************************************)
(* Bounds                                                                  *)
(***************************************************************************)
MaxId == 2          \* the primary-key sequence stops after this many inserts

(***************************************************************************)
(* HTTP status codes (service/common/status.py)                            *)
(***************************************************************************)
HTTP_200_OK == 200
HTTP_201_CREATED == 201
HTTP_204_NO_CONTENT == 204
HTTP_400_BAD_REQUEST == 400
HTTP_404_NOT_FOUND == 404
HTTP_415_UNSUPPORTED_MEDIA_TYPE == 415

(***************************************************************************)
(* Entity model (service/models.py)                                        *)
(***************************************************************************)
None == 0           \* a null id; the key sequence starts above it

Category == [UNKNOWN |-> 0, CLOTHS |-> 1, FOOD |-> 2]

CategoryName(member) == CHOOSE n \in DOMAIN Category : Category[n] = member

MaxScale == 2

RECURSIVE Pow10(_)
Pow10(n) == IF n = 0 THEN 1 ELSE 10 * Pow10(n - 1)

\* the numeric value of a decimal <<coefficient, scale>>, in 10^-MaxScale units
NumericValue(dec) == dec[1] * Pow10(MaxScale - dec[2])

\* a JSON number goes through a binary float, which drops trailing zeros
RECURSIVE FloatRepr(_)
FloatRepr(lit) ==
    IF lit[2] > 0 /\ lit[1] % 10 = 0
    THEN FloatRepr(<<lit[1] \div 10, lit[2] - 1>>)
    ELSE lit

\* Decimal(value): a string keeps its digits, a number those of its float
Decimal(value) == IF value.t = "str" THEN value.v ELSE FloatRepr(value.v)

JsonBool(b) == [t |-> "bool", v |-> IF b THEN "true" ELSE "false"]

\* Product(): every column null
NewProduct ==
    [id |-> None, name |-> "", description |-> "", price |-> <<0, 0>>,
     available |-> FALSE, category |-> Category.UNKNOWN]

\* a serialize that writes the availability as text
Serialize_AvailableAsText(p) ==
    [id |-> p.id, name |-> p.name, description |-> p.description,
     price |-> [t |-> "str", v |-> p.price],
     available |-> [t |-> "str", v |-> IF p.available THEN "True" ELSE "False"],
     category |-> CategoryName(p.category)]

\* Product.serialize
Serialize(p) ==
    [id |-> p.id, name |-> p.name, description |-> p.description,
     price |-> [t |-> "str", v |-> p.price],
     available |-> JsonBool(p.available),
     category |-> CategoryName(p.category)]

\* Product.deserialize(data): assigns the fields in order, in place, and stops
\* at the first one that raises; ok = FALSE stands for DataValidationError
Deserialize(p, data) ==
    IF data.json # "object" THEN [ok |-> FALSE, product |-> p] ELSE
    LET d == data.obj IN
    IF "name" \notin DOMAIN d THEN [ok |-> FALSE, product |-> p] ELSE
    LET p1 == [p EXCEPT !.name = d.name] IN
    IF "description" \notin DOMAIN d THEN [ok |-> FALSE, product |-> p1] ELSE
    LET p2 == [p1 EXCEPT !.description = d.description] IN
    IF "price" \notin DOMAIN d THEN [ok |-> FALSE, product |-> p2] ELSE
    LET p3 == [p2 EXCEPT !.price = Decimal(d.price)] IN
    IF "available" \notin DOMAIN d THEN [ok |-> FALSE, product |-> p3] ELSE
    IF d.available.t # "bool" THEN [ok |-> FALSE, product |-> p3] ELSE
    LET p4 == [p3 EXCEPT !.available = (d.available.v = "true")] IN
    IF "category" \notin DOMAIN d THEN [ok |-> FALSE, product |-> p4] ELSE
    IF d.category \notin DOMAIN Category THEN [ok |-> FALSE, product |-> p4] ELSE
    [ok |-> TRUE, product |-> [p4 EXCEPT !.category = Category[d.category]]]

(***************************************************************************)
(* Data access layer (service/models.py) over a table tbl                  *)
(***************************************************************************)
\* Product.find(id): the row with that primary key, or <<>> for None
Find(tbl, id) == SelectSeq(tbl, LAMBDA row : row.id = id)

\* Product.create: the id is forced to None and taken from the key sequence
Create(tbl, nid, p) == Append(tbl, [p EXCEPT !.id = nid])

\* Product.update of a loaded instance: the row with its id is rewritten
Update(tbl, p) ==
    [i \in 1..Len(tbl) |-> IF tbl[i].id = p.id THEN p ELSE tbl[i]]

\* Product.delete: the row with the instance's id is removed
Delete(tbl, p) == SelectSeq(tbl, LAMBDA row : row.id # p.id)

\* Product.all
All(tbl) == tbl

find_by_name(tbl, name) == SelectSeq(tbl, LAMBDA row : row.name = name)

find_by_category(tbl, category) ==
    SelectSeq(tbl, LAMBDA row : row.category = category)

find_by_availability(tbl, available) ==
    SelectSeq(tbl, LAMBDA row : row.available = available)

(***************************************************************************)
(* Requests and responses                                                  *)
(***************************************************************************)
HTTP_500_INTERNAL_SERVER_ERROR == 500   \* an exception no handler catches

NoBody == [json |-> "absent"]

Request(method, product_id, headers, body, args) ==
    [method |-> method, product_id |-> product_id, headers |-> headers,
     body |-> body, args |-> args]

\* kind: "object" (one serialized product in body), "array", "empty", "error"
Response(status, kind, body, location) ==
    [status |-> status, kind |-> kind, body |-> body, location |-> location]

\* abort(status)
Abort(status, tbl, nid) ==
    [response |-> Response(status, "error", <<>>, None),
     table |-> tbl, next_id |-> nid]

\* "Content-Type" in request.headers
HasHeader(headers, name) == \E h \in headers : h[1] = name

\* request.headers[name]
Header(headers, name) == (CHOOSE h \in headers : h[1] = name)[2]

\* request.get_json() under a JSON content type: the parsed value, or a 400
\* when the body is empty or does not parse
get_json_fails(body) == body.json \in {"absent", "malformed"}

\* a check that only looks at a Content-Type that is present
check_content_type_AbsentPasses(headers, content_type) ==
    IF ~HasHeader(headers, "Content-Type") THEN TRUE
    ELSE Header(headers, "Content-Type") = content_type

\* check_content_type: TRUE when it returns, FALSE when it aborts with 415
check_content_type(headers, content_type) ==
    IF ~HasHeader(headers, "Content-Type") THEN FALSE
    ELSE Header(headers, "Content-Type") = content_type

(***************************************************************************)
(* POST /products                                                          *)
(***************************************************************************)
\* create_products answering with the placeholder Location of line 93
create_products_NoLocation(req, tbl, nid) ==
    IF ~check_content_type(req.headers, "application/json")
    THEN Abort(HTTP_415_UNSUPPORTED_MEDIA_TYPE, tbl, nid) ELSE
    IF get_json_fails(req.body) THEN Abort(HTTP_400_BAD_REQUEST, tbl, nid) ELSE
    LET d == Deserialize(NewProduct, req.body) IN
    IF ~d.ok THEN Abort(HTTP_400_BAD_REQUEST, tbl, nid) ELSE
    LET created == Create(tbl, nid, d.product)
        product == created[Len(created)]
    IN  [response |-> Response(HTTP_201_CREATED, "object",
                               <<Serialize(product)>>, None),
         table |-> created, next_id |-> nid + 1]

\* create_products inserting the row under the id of the payload, if it has one
create_products_KeepsBodyId(req, tbl, nid) ==
    IF ~check_content_type(req.headers, "application/json")
    THEN Abort(HTTP_415_UNSUPPORTED_MEDIA_TYPE, tbl, nid) ELSE
    IF get_json_fails(req.body) THEN Abort(HTTP_400_BAD_REQUEST, tbl, nid) ELSE
    LET d == Deserialize(NewProduct, req.body) IN
    IF ~d.ok THEN Abort(HTTP_400_BAD_REQUEST, tbl, nid) ELSE
    LET id == IF "id" \in DOMAIN req.body.obj THEN req.body.obj.id ELSE nid
        created == Append(tbl, [d.product EXCEPT !.id = id])
        product == created[Len(created)]
    IN  [response |-> Response(HTTP_201_CREATED, "object",
                               <<Serialize(product)>>, product.id),
         table |-> created, next_id |-> nid + 1]

\* create_products going on after deserialize failed on a mapping
create_products_NoValidation(req, tbl, nid) ==
    IF ~check_content_type(req.headers, "application/json")
    THEN Abort(HTTP_415_UNSUPPORTED_MEDIA_TYPE, tbl, nid) ELSE
    IF get_json_fails(req.body) THEN Abort(HTTP_400_BAD_REQUEST, tbl, nid) ELSE
    IF req.body.json # "object" THEN Abort(HTTP_400_BAD_REQUEST, tbl, nid) ELSE
    LET d == Deserialize(NewProduct, req.body)
        created == Create(tbl, nid, d.product)
        product == created[Len(created)]
    IN  [response |-> Response(HTTP_201_CREATED, "object",
                               <<Serialize(product)>>, product.id),
         table |-> created, next_id |-> nid + 1]

create_products(req, tbl, nid) ==
    IF ~check_content_type(req.headers, "application/json")
    THEN Abort(HTTP_415_UNSUPPORTED_MEDIA_TYPE, tbl, nid) ELSE
    IF get_json_fails(req.body) THEN Abort(HTTP_400_BAD_REQUEST, tbl, nid) ELSE
    LET d == Deserialize(NewProduct, req.body) IN
    IF ~d.ok THEN Abort(HTTP_400_BAD_REQUEST, tbl, nid) ELSE
    LET created == Create(tbl, nid, d.product)
        product == created[Len(created)]
    IN  [response |-> Response(HTTP_201_CREATED, "object",
                               <<Serialize(product)>>, product.id),
         table |-> created, next_id |-> nid + 1]

(***************************************************************************)
(* GET /products/<product_id>                                              *)
(***************************************************************************)
\* get_products serializing whatever find returned
get_products_NoGuard(req, tbl, nid) ==
    LET found == Find(tbl, req.product_id) IN
    IF found = <<>> THEN Abort(HTTP_500_INTERNAL_SERVER_ERROR, tbl, nid) ELSE
    [response |-> Response(HTTP_200_OK, "object", <<Serialize(found[1])>>, None),
     table |-> tbl, next_id |-> nid]

get_products(req, tbl, nid) ==
    LET found == Find(tbl, req.product_id) IN
    IF found = <<>> THEN Abort(HTTP_404_NOT_FOUND, tbl, nid) ELSE
    [response |-> Response(HTTP_200_OK, "object", <<Serialize(found[1])>>, None),
     table |-> tbl, next_id |-> nid]

(***************************************************************************)
(* PUT /products/<product_id>                                              *)
(***************************************************************************)
\* update_products without the call of product.update()
update_products_NoUpdate(req, tbl, nid) ==
    IF ~check_content_type(req.headers, "application/json")
    THEN Abort(HTTP_415_UNSUPPORTED_MEDIA_TYPE, tbl, nid) ELSE
    IF get_json_fails(req.body) THEN Abort(HTTP_400_BAD_REQUEST, tbl, nid) ELSE
    LET found == Find(tbl, req.product_id) IN
    IF found = <<>> THEN Abort(HTTP_404_NOT_FOUND, tbl, nid) ELSE
    LET d == Deserialize(found[1], req.body) IN
    IF ~d.ok THEN Abort(HTTP_400_BAD_REQUEST, tbl, nid) ELSE
    [response |-> Response(HTTP_200_OK, "object", <<Serialize(d.product)>>, None),
     table |-> tbl, next_id |-> nid]

\* update_products deserializing the body before it looks the product up
update_products_ValidatesFirst(req, tbl, nid) ==
    IF ~check_content_type(req.headers, "application/json")
    THEN Abort(HTTP_415_UNSUPPORTED_MEDIA_TYPE, tbl, nid) ELSE
    IF get_json_fails(req.body) THEN Abort(HTTP_400_BAD_REQUEST, tbl, nid) ELSE
    IF ~Deserialize(NewProduct, req.body).ok
    THEN Abort(HTTP_400_BAD_REQUEST, tbl, nid) ELSE
    LET found == Find(tbl, req.product_id) IN
    IF found = <<>> THEN Abort(HTTP_404_NOT_FOUND, tbl, nid) ELSE
    LET updated == Update(tbl, Deserialize(found[1], req.body).product)
        product == Find(updated, req.product_id)[1]
    IN  [response |-> Response(HTTP_200_OK, "object", <<Serialize(product)>>, None),
         table |-> updated, next_id |-> nid]

\* update_products whose failed deserialize leaves its assignments committed
update_products_CommitsPartial(req, tbl, nid) ==
    IF ~check_content_type(req.headers, "application/json")
    THEN Abort(HTTP_415_UNSUPPORTED_MEDIA_TYPE, tbl, nid) ELSE
    IF get_json_fails(req.body) THEN Abort(HTTP_400_BAD_REQUEST, tbl, nid) ELSE
    LET found == Find(tbl, req.product_id) IN
    IF found = <<>> THEN Abort(HTTP_404_NOT_FOUND, tbl, nid) ELSE
    LET d == Deserialize(found[1], req.body) IN
    IF ~d.ok THEN Abort(HTTP_400_BAD_REQUEST, Update(tbl, d.product), nid) ELSE
    LET updated == Update(tbl, d.product)
        product == Find(updated, d.product.id)[1]
    IN  [response |-> Response(HTTP_200_OK, "object", <<Serialize(product)>>, None),
         table |-> updated, next_id |-> nid]

update_products(req, tbl, nid) ==
    IF ~check_content_type(req.headers, "application/json")
    THEN Abort(HTTP_415_UNSUPPORTED_MEDIA_TYPE, tbl, nid) ELSE
    IF get_json_fails(req.body) THEN Abort(HTTP_400_BAD_REQUEST, tbl, nid) ELSE
    LET found == Find(tbl, req.product_id) IN
    IF found = <<>> THEN Abort(HTTP_404_NOT_FOUND, tbl, nid) ELSE
    LET d == Deserialize(found[1], req.body) IN
    \* the half-assigned instance is dropped with the request's session
    IF ~d.ok THEN Abort(HTTP_400_BAD_REQUEST, tbl, nid) ELSE
    LET updated == Update(tbl, d.product)
        product == Find(updated, d.product.id)[1]
    IN  [response |-> Response(HTTP_200_OK, "object", <<Serialize(product)>>, None),
         table |-> updated, next_id |-> nid]

(***************************************************************************)
(* DELETE /products/<product_id>                                           *)
(***************************************************************************)
\* delete_products without the not-found guard
delete_products_NoGuard(req, tbl, nid) ==
    [response |-> Response(HTTP_204_NO_CONTENT, "empty", <<>>, None),
     table |-> SelectSeq(tbl, LAMBDA row : row.id # req.product_id),
     next_id |-> nid]

delete_products(req, tbl, nid) ==
    LET found == Find(tbl, req.product_id) IN
    IF found = <<>> THEN Abort(HTTP_404_NOT_FOUND, tbl, nid) ELSE
    [response |-> Response(HTTP_204_NO_CONTENT, "empty", <<>>, None),
     table |-> Delete(tbl, found[1]), next_id |-> nid]

(***************************************************************************)
(* GET /products                                                           *)
(***************************************************************************)
\* request.args is a MultiDict built from the query string, a sequence of
\* <<key, value>> pairs: len() counts its distinct keys and items() yields
\* each key once, in order of first appearance, with its first value
ArgsLen(args) == Cardinality({args[i][1] : i \in DOMAIN args})

FirstItem(args) == args[1]

\* str.lower on the strings that occur in query strings
Lower(str) ==
    CASE str = "NAME" -> "name"
      [] str = "Category" -> "category"
      [] str = "True" -> "true"
      [] str = "TRUE" -> "true"
      [] str = "CLOTHS" -> "cloths"
      [] str = "FOOD" -> "food"
      [] str = "UNKNOWN" -> "unknown"
      [] str = "Fedora" -> "fedora"
      [] str = "Hat" -> "hat"
      [] OTHER -> str

\* attributes of the Category class that are not members of the enumeration
ClassAttributes == {"__members__"}

\* getattr(Category, value) raises AttributeError
getattr_fails(value) == value \notin DOMAIN Category \cup ClassAttributes

\* a listing that stops one product short
Listing_DropsLast(products, tbl, nid) ==
    [response |-> Response(HTTP_200_OK, "array",
                           [i \in 1..(Len(products) - 1) |-> Serialize(products[i])],
                           None),
     table |-> tbl, next_id |-> nid]

Listing(products, tbl, nid) ==
    [response |-> Response(HTTP_200_OK, "array",
                           [i \in 1..Len(products) |-> Serialize(products[i])],
                           None),
     table |-> tbl, next_id |-> nid]

\* list_all_products comparing the availability value as it was sent
list_all_products_ExactTrue(req, tbl, nid) ==
    IF ArgsLen(req.args) > 1 THEN Abort(HTTP_400_BAD_REQUEST, tbl, nid) ELSE
    LET item  == IF ArgsLen(req.args) = 1 THEN FirstItem(req.args) ELSE <<"", "">>
        param == Lower(item[1])
        value == item[2]
    IN
    IF param \notin {"", "name", "category", "available"}
    THEN Abort(HTTP_400_BAD_REQUEST, tbl, nid) ELSE
    IF param = "name" THEN Listing(find_by_name(tbl, value), tbl, nid) ELSE
    IF param = "category" THEN
        IF getattr_fails(value) THEN Abort(HTTP_400_BAD_REQUEST, tbl, nid) ELSE
        IF value \notin DOMAIN Category
        THEN Abort(HTTP_500_INTERNAL_SERVER_ERROR, tbl, nid) ELSE
        Listing(find_by_category(tbl, Category[value]), tbl, nid)
    ELSE
    IF param = "available"
    THEN Listing(find_by_availability(tbl, value = "true"), tbl, nid)
    ELSE Listing(All(tbl), tbl, nid)

\* list_all_products lowering the value together with the key
list_all_products_LowersValue(req, tbl, nid) ==
    IF ArgsLen(req.args) > 1 THEN Abort(HTTP_400_BAD_REQUEST, tbl, nid) ELSE
    LET item  == IF ArgsLen(req.args) = 1 THEN FirstItem(req.args) ELSE <<"", "">>
        param == Lower(item[1])
        value == Lower(item[2])
    IN
    IF param \notin {"", "name", "category", "available"}
    THEN Abort(HTTP_400_BAD_REQUEST, tbl, nid) ELSE
    IF param = "name" THEN Listing(find_by_name(tbl, value), tbl, nid) ELSE
    IF param = "category" THEN
        IF getattr_fails(value) THEN Abort(HTTP_400_BAD_REQUEST, tbl, nid) ELSE
        IF value \notin DOMAIN Category
        THEN Abort(HTTP_500_INTERNAL_SERVER_ERROR, tbl, nid) ELSE
        Listing(find_by_category(tbl, Category[value]), tbl, nid)
    ELSE
    IF param = "available"
    THEN Listing(find_by_availability(tbl, value = "true"), tbl, nid)
    ELSE Listing(All(tbl), tbl, nid)

list_all_products(req, tbl, nid) ==
    IF ArgsLen(req.args) > 1 THEN Abort(HTTP_400_BAD_REQUEST, tbl, nid) ELSE
    LET item  == IF ArgsLen(req.args) = 1 THEN FirstItem(req.args) ELSE <<"", "">>
        param == Lower(item[1])
        value == item[2]
    IN
    IF param \notin {"", "name", "category", "available"}
    THEN Abort(HTTP_400_BAD_REQUEST, tbl, nid) ELSE
    IF param = "name" THEN Listing(find_by_name(tbl, value), tbl, nid) ELSE
    IF param = "category" THEN
        IF getattr_fails(value) THEN Abort(HTTP_400_BAD_REQUEST, tbl, nid) ELSE
        \* a class attribute that is no member cannot be bound as a column value
        IF value \notin DOMAIN Category
        THEN Abort(HTTP_500_INTERNAL_SERVER_ERROR, tbl, nid) ELSE
        Listing(find_by_category(tbl, Category[value]), tbl, nid)
    ELSE
    IF param = "available"
    THEN Listing(find_by_availability(tbl, Lower(value) = "true"), tbl, nid)
    ELSE Listing(All(tbl), tbl, nid)

(***************************************************************************)
(* Inputs                                                                  *)
(***************************************************************************)
Num(coef, scale) == [t |-> "num", v |-> <<coef, scale>>]
Str(coef, scale) == [t |-> "str", v |-> <<coef, scale>>]
Bool(text) == [t |-> "bool", v |-> text]

Fedora ==
    [name |-> "Fedora", description |-> "A red hat", price |-> Num(1250, 2),
     available |-> Bool("true"), category |-> "CLOTHS"]

\* a payload as a client echoes it back from serialize(): id included, price
\* as a string
Hat ==
    [id |-> 1, name |-> "Hat", description |-> "A blue hat",
     price |-> Str(1250, 2), available |-> Bool("false"), category |-> "FOOD"]

ValidPayloads == {Fedora, Hat}

Without(obj, key) == [k \in DOMAIN obj \ {key} |-> obj[k]]

InvalidPayloads ==
    {Without(Fedora, key) : key \in DOMAIN Fedora}
        \cup {[Fedora EXCEPT !.available = [t |-> "str", v |-> "true"]],
              [Fedora EXCEPT !.category = "NoWay"]}

Object(obj) == [json |-> "object", obj |-> obj]

Bodies ==
    {Object(obj) : obj \in ValidPayloads \cup InvalidPayloads}
        \cup {[json |-> "string"], [json |-> "malformed"], NoBody}

JsonHeaders == {<<"Content-Type", "application/json">>}

OtherHeaders ==
    { {}, {<<"Content-Type", "plain/text">>},
      {<<"Content-Type", "application/json; charset=utf-8">>} }

\* headers and body of a POST or PUT
Entities ==
    {<<JsonHeaders, body>> : body \in Bodies}
        \cup (OtherHeaders \X {Object(Fedora), [json |-> "malformed"]})

\* path ids: every id the key sequence can give out, and one it never does
PathIds == 1..(MaxId + 1)

QueryStrings ==
    { <<>>,
      <<<<"name", "Fedora">>>>, <<<<"name", "fedora">>>>,
      <<<<"NAME", "Hat">>>>,
      <<<<"category", "CLOTHS">>>>, <<<<"category", "FOOD">>>>,
      <<<<"category", "cloths">>>>, <<<<"category", "hacking-bs">>>>,
      <<<<"category", "__members__">>>>,
      <<<<"available", "true">>>>, <<<<"available", "True">>>>,
      <<<<"available", "false">>>>, <<<<"available", "1">>>>,
      <<<<"available", "">>>>,
      <<<<"goaway", "no">>>>, <<<<"", "Fedora">>>>,
      <<<<"name", "hello">>, <<"availability", "false">>>>,
      <<<<"name", "Fedora">>, <<"category", "CLOTHS">>>>,
      <<<<"name", "Fedora">>, <<"name", "Hat">>>>,
      <<<<"goaway", "no">>, <<"goaway", "yes">>>>,
      <<<<"name", "Fedora">>, <<"category", "CLOTHS">>, <<"available", "true">>>> }

(***************************************************************************)
(* The service: one step serves one request                                *)
(***************************************************************************)
Init ==
    /\ table = <<>>
    /\ next_id = 1
    /\ request = Request("NONE", None, {}, NoBody, <<>>)
    /\ response = Response(None, "empty", <<>>, None)
    /\ posted = {}
    /\ live = {}
    /\ deleted = {}
    /\ trip = [stage |-> "off"]
    /\ workers = <<>>

Serve(req, result) ==
    /\ request' = req
    /\ response' = result.response
    /\ table' = result.table
    /\ next_id' = result.next_id
    /\ UNCHANGED <<trip, workers>>

PostProducts ==
    /\ next_id <= MaxId
    /\ \E e \in Entities :
        LET req == Request("POST", None, e[1], e[2], <<>>)
            result == create_products(req, table, next_id)
            created == result.response.status = HTTP_201_CREATED
        IN  /\ Serve(req, result)
            /\ posted' = IF created
                         THEN posted \cup {<<result.response.location,
                                            result.response.body[1]>>}
                         ELSE posted
            /\ live' = IF created
                       THEN live \cup {<<result.response.body[1].id, req.body.obj>>}
                       ELSE live
            /\ UNCHANGED deleted

ListProducts ==
    \E args \in QueryStrings :
        LET req == Request("GET", None, {}, NoBody, args) IN
        /\ Serve(req, list_all_products(req, table, next_id))
        /\ UNCHANGED <<posted, live, deleted>>

GetProduct ==
    \E id \in PathIds :
        LET req == Request("GET", id, {}, NoBody, <<>>) IN
        /\ Serve(req, get_products(req, table, next_id))
        /\ UNCHANGED <<posted, live, deleted>>

PutProduct ==
    \E id \in PathIds, e \in Entities :
        LET req == Request("PUT", id, e[1], e[2], <<>>)
            result == update_products(req, table, next_id)
        IN  /\ Serve(req, result)
            /\ posted' = {b \in posted : b[1] # id}
            /\ live' = IF result.response.status = HTTP_200_OK
                       THEN {l \in live : l[1] # id} \cup {<<id, req.body.obj>>}
                       ELSE live
            /\ UNCHANGED deleted

DeleteProduct ==
    \E id \in PathIds :
        LET req == Request("DELETE", id, {}, NoBody, <<>>)
            result == delete_products(req, table, next_id)
            gone == result.response.status = HTTP_204_NO_CONTENT
        IN  /\ Serve(req, result)
            /\ posted' = {b \in posted : b[1] # id}
            /\ live' = IF gone THEN {l \in live : l[1] # id} ELSE live
            /\ deleted' = IF gone THEN deleted \cup {id} ELSE deleted

Next ==
    \/ PostProducts
    \/ ListProducts
    \/ GetProduct
    \/ PutProduct
    \/ DeleteProduct

Spec == Init /\ [][Next]_vars

(***************************************************************************)
(* Vocabulary of the properties                                            *)
(***************************************************************************)
RequiredKeys == {"name", "description", "price", "available", "category"}

\* the request carries exactly Content-Type: application/json
IsJson(req) == <<"Content-Type", "application/json">> \in req.headers

\* the body is a mapping with every required key, a boolean-typed available
\* and the name of a Category member
ValidBody(body) ==
    /\ body.json = "object"
    /\ RequiredKeys \subseteq DOMAIN body.obj
    /\ body.obj.available.t = "bool"
    /\ body.obj.category \in DOMAIN Category

IsItem(req) == req.product_id # None

Stored(tbl, id) == \E i \in DOMAIN tbl : tbl[i].id = id

Rows(tbl) == {tbl[i] : i \in DOMAIN tbl}

\* a serialized product carries the field values of a payload
Matches(entry, obj) ==
    /\ entry.name = obj.name
    /\ entry.description = obj.description
    /\ entry.price.t = "str"
    /\ NumericValue(entry.price.v) = NumericValue(obj.price.v)
    /\ entry.available = obj.available
    /\ entry.category = obj.category

\* a serialized product is the wire form of a stored row
Shows(entry, row) ==
    /\ entry.id = row.id
    /\ entry.name = row.name
    /\ entry.description = row.description
    /\ entry.price = [t |-> "str", v |-> row.price]
    /\ entry.available.t = "bool"
    /\ (entry.available.v = "true") = row.available
    /\ Category[entry.category] = row.category

(***************************************************************************)
(* C1: a POST with Content-Type application/json and a valid body answers  *)
(* 201 with the serialized product, a non-null id and a Location for that  *)
(* id; a GET of that Location, with no PUT or DELETE of the id in between, *)
(* answers 200 with the body of the POST response.                         *)
(***************************************************************************)
C1_PostThenGet ==
    /\ (request.method = "POST" /\ IsJson(request) /\ ValidBody(request.body))
        => /\ response.status = HTTP_201_CREATED
           /\ response.kind = "object"
           /\ Matches(response.body[1], request.body.obj)
           /\ response.body[1].id # None
           /\ response.location = response.body[1].id
    /\ (request.method = "GET" /\ IsItem(request))
        => \A p \in posted :
              p[1] = request.product_id
                  => response.status = HTTP_200_OK /\ response.body = <<p[2]>>

C1_Witness ==
    /\ request.method = "GET"
    /\ \E p \in posted : p[1] = request.product_id
    /\ response.status = HTTP_200_OK
    /\ Len(table) = 2

(***************************************************************************)
(* C2: no two stored products share an id; a successful create assigns the *)
(* next value of the key sequence, which no stored product has, whatever   *)
(* id the request body carries.                                            *)
(***************************************************************************)
UniqueIds == \A i, j \in DOMAIN table : table[i].id = table[j].id => i = j

C2_FreshIds ==
    /\ []UniqueIds
    /\ [][(request'.method = "POST" /\ response'.status = HTTP_201_CREATED)
            => /\ response'.body[1].id = next_id
               /\ ~Stored(table, response'.body[1].id)
               /\ Stored(table', response'.body[1].id)]_vars

C2_Witness ==
    /\ request.method = "POST"
    /\ response.status = HTTP_201_CREATED
    /\ "id" \in DOMAIN request.body.obj
    /\ response.body[1].id # request.body.obj.id
    /\ Stored(table, request.body.obj.id)
    /\ deleted = {}

(***************************************************************************)
(* C3: GET /products without a query parameter answers 200 with exactly    *)
(* one entry per product created and not deleted since, each with the      *)
(* field values of its latest successful POST or PUT, and nothing else.    *)
(***************************************************************************)
C3_ListAll ==
    (request.method = "GET" /\ ~IsItem(request) /\ request.args = <<>>)
        => /\ response.status = HTTP_200_OK
           /\ response.kind = "array"
           /\ Len(response.body) = Cardinality(live)
           /\ \A l \in live :
                \E i \in DOMAIN response.body :
                    /\ response.body[i].id = l[1]
                    /\ Matches(response.body[i], l[2])
                    /\ \A j \in DOMAIN response.body :
                          response.body[j].id = l[1] => j = i

C3_Witness ==
    /\ request.method = "GET" /\ ~IsItem(request) /\ request.args = <<>>
    /\ Len(response.body) = 1
    /\ deleted # {}
    /\ \E l \in live : \A p \in posted : p[1] # l[1]

(***************************************************************************)
(* C4: DELETE of a stored id answers 204 and removes that product alone;   *)
(* DELETE of an id that is not stored answers 404 and changes nothing;     *)
(* once an id was deleted every DELETE and GET of it answers 404.          *)
(***************************************************************************)
C4_Delete ==
    /\ [][request'.method = "DELETE"
            => IF Stored(table, request'.product_id)
               THEN /\ response'.status = HTTP_204_NO_CONTENT
                    /\ Len(table') = Len(table) - 1
                    /\ Rows(table')
                         = {row \in Rows(table) : row.id # request'.product_id}
               ELSE /\ response'.status = HTTP_404_NOT_FOUND
                    /\ table' = table]_vars
    /\ [][(request'.method \in {"DELETE", "GET"} /\ request'.product_id \in deleted)
            => response'.status = HTTP_404_NOT_FOUND]_vars

C4_Witness ==
    /\ request.method = "DELETE"
    /\ request.product_id \in deleted
    /\ response.status = HTTP_404_NOT_FOUND
    /\ Len(table) = 1

(***************************************************************************)
(* C5: a PUT with Content-Type application/json, a stored id and a valid   *)
(* body answers 200 with the serialized updated product; the stored        *)
(* product of that id then has the body's field values and still the path  *)
(* id, whatever id the body carries, and no other row changes.             *)
(***************************************************************************)
C5_Update ==
    [][(/\ request'.method = "PUT"
        /\ IsJson(request')
        /\ ValidBody(request'.body)
        /\ Stored(table, request'.product_id))
        => /\ response'.status = HTTP_200_OK
           /\ response'.kind = "object"
           /\ response'.body[1].id = request'.product_id
           /\ Matches(response'.body[1], request'.body.obj)
           /\ Len(table') = Len(table)
           /\ \A i \in DOMAIN table :
                IF table[i].id = request'.product_id
                THEN Shows(response'.body[1], table'[i])
                ELSE table'[i] = table[i]]_vars

C5_Witness ==
    /\ request.method = "PUT"
    /\ response.status = HTTP_200_OK
    /\ "id" \in DOMAIN request.body.obj
    /\ request.body.obj.id # request.product_id
    /\ Len(table) = 2
    /\ \E i \in DOMAIN table :
          table[i].id = request.product_id /\ table[i].name = request.body.obj.name

(***************************************************************************)
(* C6: GET /products/<id> answers 200 with the serialized product exactly  *)
(* when a product of that id is stored, and 404 for every other id.        *)
(***************************************************************************)
C6_Read ==
    (request.method = "GET" /\ IsItem(request))
        => IF Stored(table, request.product_id)
           THEN /\ response.status = HTTP_200_OK
                /\ response.kind = "object"
                /\ \E i \in DOMAIN table :
                      /\ table[i].id = request.product_id
                      /\ Shows(response.body[1], table[i])
           ELSE response.status = HTTP_404_NOT_FOUND

C6_Witness ==
    /\ request.method = "GET" /\ IsItem(request)
    /\ response.status = HTTP_404_NOT_FOUND
    /\ request.product_id \notin deleted
    /\ Len(table) = 2

(***************************************************************************)
(* C7: POST /products and PUT /products/<id> answer 415 whenever the       *)
(* Content-Type header is absent or is not exactly application/json,       *)
(* before any other check, and leave the store unchanged.                  *)
(***************************************************************************)
C7_MediaType ==
    [][(request'.method \in {"POST", "PUT"} /\ ~IsJson(request'))
        => /\ response'.status = HTTP_415_UNSUPPORTED_MEDIA_TYPE
           /\ table' = table
           /\ next_id' = next_id]_vars

C7_Witness ==
    /\ request.method = "PUT"
    /\ request.headers = {}
    /\ ~Stored(table, request.product_id)
    /\ request.body.json = "malformed"
    /\ response.status = HTTP_415_UNSUPPORTED_MEDIA_TYPE
    /\ Len(table) = 1

(***************************************************************************)
(* C8: a POST with Content-Type application/json whose body fails          *)
(* deserialization (not a mapping, a required key missing, available not   *)
(* boolean-typed, category no member name) answers 400 and creates no      *)
(* product.                                                                *)
(***************************************************************************)
FailsDeserialization(body) ==
    \/ body.json = "string"
    \/ body.json = "object" /\ ~ValidBody(body)

C8_BadPayload ==
    [][(/\ request'.method = "POST"
        /\ IsJson(request')
        /\ FailsDeserialization(request'.body))
        => /\ response'.status = HTTP_400_BAD_REQUEST
           /\ table' = table
           /\ next_id' = next_id]_vars

C8_Witness ==
    /\ request.method = "POST"
    /\ IsJson(request)
    /\ request.body.json = "object"
    /\ "available" \in DOMAIN request.body.obj
    /\ request.body.obj.available = [t |-> "str", v |-> "true"]
    /\ response.status = HTTP_400_BAD_REQUEST
    /\ Len(table) = 1

(***************************************************************************)
(* C9 as claimed: a PUT with Content-Type application/json to an id that   *)
(* is not stored answers 404 whatever the body.                            *)
(***************************************************************************)
C9_AsClaimed ==
    (/\ request.method = "PUT"
     /\ IsJson(request)
     /\ ~Stored(table, request.product_id))
        => response.status = HTTP_404_NOT_FOUND

(***************************************************************************)
(* C9 amended: a PUT with Content-Type application/json to an id that is   *)
(* not stored answers 404 when its body parses as JSON, be the parsed      *)
(* value a valid payload or not, and 400 when the body is empty or does    *)
(* not parse; either way the store is unchanged and no product is created. *)
(***************************************************************************)
C9_NotFound ==
    [][(/\ request'.method = "PUT"
        /\ IsJson(request')
        /\ ~Stored(table, request'.product_id))
        => /\ response'.status =
                IF request'.body.json \in {"absent", "malformed"}
                THEN HTTP_400_BAD_REQUEST ELSE HTTP_404_NOT_FOUND
           /\ table' = table
           /\ next_id' = next_id]_vars

C9_Witness ==
    /\ request.method = "PUT"
    /\ IsJson(request)
    /\ ~Stored(table, request.product_id)
    /\ FailsDeserialization(request.body)
    /\ response.status = HTTP_404_NOT_FOUND
    /\ Len(table) = 1

(***************************************************************************)
(* C10: GET /products with two or more query parameters answers 400        *)
(* whatever their keys, two parameters of the same key included.           *)
(***************************************************************************)
C10_TwoParameters ==
    (request.method = "GET" /\ ~IsItem(request) /\ Len(request.args) >= 2)
        => response.status = HTTP_400_BAD_REQUEST

(***************************************************************************)
(* Vocabulary of the listing properties                                    *)
(***************************************************************************)
IsList(req) == req.method = "GET" /\ ~IsItem(req)

\* the query string is exactly ?key=value
OneParameter(req, key) ==
    IsList(req) /\ Len(req.args) = 1 /\ req.args[1][1] = key

\* the response lists exactly the stored rows that satisfy Keep, once each
ListsExactly(resp, tbl, Keep(_)) ==
    /\ resp.status = HTTP_200_OK
    /\ resp.kind = "array"
    /\ Len(resp.body) = Cardinality({i \in DOMAIN tbl : Keep(tbl[i])})
    /\ \A i \in DOMAIN tbl :
          Keep(tbl[i]) => \E j \in DOMAIN resp.body : Shows(resp.body[j], tbl[i])
    /\ \A j \in DOMAIN resp.body :
          \E i \in DOMAIN tbl : Keep(tbl[i]) /\ Shows(resp.body[j], tbl[i])

(***************************************************************************)
(* C11: GET /products with exactly one query parameter whose key is not    *)
(* one of name, category, available answers 400 and no product list, for   *)
(* every such key (goaway, the empty key, NAME).                           *)
(***************************************************************************)
C11_UnknownKey ==
    (/\ IsList(request)
     /\ Len(request.args) = 1
     /\ request.args[1][1] \notin {"name", "category", "available"})
        => response.status = HTTP_400_BAD_REQUEST /\ response.kind # "array"

(***************************************************************************)
(* C12: GET /products?category=v answers 400 for every v that is not       *)
(* exactly the name of a Category member; no such v gets a 200 or a 5xx.   *)
(***************************************************************************)
C12_UnknownCategory ==
    (OneParameter(request, "category")
        /\ request.args[1][2] \notin DOMAIN Category)
        => response.status = HTTP_400_BAD_REQUEST

(***************************************************************************)
(* C13: GET /products?available=v never answers 400: it answers 200 with   *)
(* exactly the stored products whose available is b, where b is true when  *)
(* v is "true" in any letter case and false for every other v.             *)
(***************************************************************************)
SpellingsOfTrue == {"true", "True", "TRUE"}

C13_ByAvailability ==
    OneParameter(request, "available")
        => LET b == request.args[1][2] \in SpellingsOfTrue
               Keep(row) == row.available = b
           IN  ListsExactly(response, table, Keep)

C13_Witness ==
    /\ OneParameter(request, "available")
    /\ request.args[1][2] = "True"
    /\ Len(response.body) = 1
    /\ Len(table) = 2

(***************************************************************************)
(* C14: GET /products?name=v answers 200 with exactly the stored products  *)
(* whose name is v, letter case included, and GET /products?category=C for *)
(* the name C of a Category member answers 200 with exactly the stored     *)
(* products of category C.                                                 *)
(***************************************************************************)
C14_ByNameOrCategory ==
    /\ OneParameter(request, "name")
        => LET Keep(row) == row.name = request.args[1][2]
           IN  ListsExactly(response, table, Keep)
    /\ (OneParameter(request, "category")
            /\ request.args[1][2] \in DOMAIN Category)
        => LET Keep(row) == CategoryName(row.category) = request.args[1][2]
           IN  ListsExactly(response, table, Keep)

C14_Witness ==
    /\ OneParameter(request, "name")
    /\ request.args[1][2] = "Fedora"
    /\ Len(response.body) = 1
    /\ Len(table) = 2

Products ==
    [id : 1..MaxId, name : {"Fedora", "Hat"}, description : {"A red hat", ""},
     price : {<<1250, 2>>, <<125, 1>>, <<7, 0>>}, available : BOOLEAN,
     category : {Category[n] : n \in DOMAIN Category}]

\* the instances deserialized into: a fresh one and two populated ones
Others ==
    {NewProduct,
     [id |-> None, name |-> "Hat", description |-> "A blue hat",
      price |-> <<700, 2>>, available |-> FALSE, category |-> Category.FOOD],
     [id |-> MaxId + 1, name |-> "Fedora", description |-> "A red hat",
      price |-> <<1250, 2>>, available |-> TRUE, category |-> Category.CLOTHS]}

Idle ==
    /\ table = <<>>
    /\ next_id = 1
    /\ request = Request("NONE", None, {}, NoBody, <<>>)
    /\ response = Response(None, "empty", <<>>, None)
    /\ posted = {}
    /\ live = {}
    /\ deleted = {}

InitRoundTrip ==
    /\ Idle
    /\ workers = <<>>
    /\ \E p \in Products, other \in Others :
          trip = [stage |-> "start", product |-> p, other |-> other]

\* serialization = product.serialize()
TripSerialize ==
    /\ trip.stage = "start"
    /\ trip' = [stage |-> "serialized", product |-> trip.product,
                other |-> trip.other,
                serialization |-> Object(Serialize(trip.product))]
    /\ UNCHANGED <<table, next_id, request, response, posted, live, deleted,
                   workers>>

\* other_product.deserialize(serialization)
TripDeserialize ==
    /\ trip.stage = "serialized"
    /\ LET d == Deserialize(trip.other, trip.serialization) IN
       trip' = [stage |-> "done", product |-> trip.product, other |-> trip.other,
                serialization |-> trip.serialization,
                ok |-> d.ok, result |-> d.product]
    /\ UNCHANGED <<table, next_id, request, response, posted, live, deleted,
                   workers>>

NextRoundTrip ==
    \/ TripSerialize
    \/ TripDeserialize

SpecRoundTrip == InitRoundTrip /\ [][NextRoundTrip]_vars

(***************************************************************************)
(* C15: deserializing serialize(P) into another instance succeeds and      *)
(* gives it P's name, description, available and category and a price of   *)
(* P's numeric value; the id of that instance is not taken from the        *)
(* mapping.                                                                *)
(***************************************************************************)
C15_RoundTrip ==
    trip.stage = "done"
        => /\ trip.ok
           /\ trip.result.name = trip.product.name
           /\ trip.result.description = trip.product.description
           /\ NumericValue(trip.result.price) = NumericValue(trip.product.price)
           /\ trip.result.available = trip.product.available
           /\ trip.result.category = trip.product.category
           /\ trip.result.id = trip.other.id

C15_Witness ==
    /\ trip.stage = "done"
    /\ trip.ok
    /\ trip.other.id # trip.product.id
    /\ trip.other.name # trip.product.name
    /\ trip.other.available # trip.product.available
    /\ trip.result.name = trip.product.name
    /\ "id" \in DOMAIN trip.serialization.obj

(***************************************************************************)
(* Concurrent service: DELETE and PUT requests served by several workers,  *)
(* each statement that reaches the store a step of its own.  Every request *)
(* has its own session; find reads, and commit writes, the committed table.*)
(***************************************************************************)
NWorkers == 2

Workers == 1..NWorkers

Worker(pc, method, product_id, body, found, status) ==
    [pc |-> pc, method |-> method, product_id |-> product_id, body |-> body,
     found |-> found, status |-> status]

IdleWorker == Worker("idle", "NONE", None, NoBody, <<>>, None)

\* the table after POST of Fedora and POST of Hat
StoredTable ==
    LET one == create_products(Request("POST", None, JsonHeaders, Object(Fedora), <<>>),
                               <<>>, 1)
    IN  create_products(Request("POST", None, JsonHeaders, Object(Hat), <<>>),
                        one.table, one.next_id)

StoredIds == {StoredTable.table[i].id : i \in DOMAIN StoredTable.table}

\* bodies of the concurrent PUTs, sent as application/json
PutBodies == {Object(Fedora), Object(Hat), Object(Without(Fedora, "category"))}

InitConcurrent ==
    /\ table = StoredTable.table
    /\ next_id = StoredTable.next_id
    /\ request = Request("NONE", None, {}, NoBody, <<>>)
    /\ response = Response(None, "empty", <<>>, None)
    /\ posted = {}
    /\ live = {}
    /\ deleted = {}
    /\ trip = [stage |-> "off"]
    /\ workers = [w \in Workers |-> IdleWorker]

Sequential == <<next_id, request, response, posted, live, deleted, trip>>

\* a worker takes a DELETE or a PUT of some id
Receive(w) ==
    /\ workers[w].pc = "idle"
    /\ \E id \in StoredIds \cup {MaxId + 1} :
          \/ workers' = [workers EXCEPT ![w] =
                            Worker("find", "DELETE", id, NoBody, <<>>, None)]
          \/ \E body \in PutBodies :
                workers' = [workers EXCEPT ![w] =
                               Worker("find", "PUT", id, body, <<>>, None)]
    /\ UNCHANGED <<table, Sequential>>

\* product = Product.find(product_id); abort(404) if it is None
FindProduct(w) ==
    /\ workers[w].pc = "find"
    /\ LET found == Find(table, workers[w].product_id) IN
       workers' = [workers EXCEPT ![w] =
           IF found = <<>>
           THEN [@ EXCEPT !.pc = "done", !.status = HTTP_404_NOT_FOUND]
           ELSE [@ EXCEPT !.found = found,
                          !.pc = IF workers[w].method = "DELETE" THEN "delete"
                                 ELSE "deserialize"]]
    /\ UNCHANGED <<table, Sequential>>

\* product.delete(), first half: the session marks the instance deleted
MarkDeleted(w) ==
    /\ workers[w].pc = "delete"
    /\ workers' = [workers EXCEPT ![w].pc = "commit"]
    /\ UNCHANGED <<table, Sequential>>

\* product.deserialize(data) on the loaded instance
DeserializeBody(w) ==
    /\ workers[w].pc = "deserialize"
    /\ LET d == Deserialize(workers[w].found[1], workers[w].body) IN
       workers' = [workers EXCEPT ![w] =
           IF d.ok
           THEN [@ EXCEPT !.found = <<d.product>>, !.pc = "commit"]
           ELSE [@ EXCEPT !.pc = "done", !.status = HTTP_400_BAD_REQUEST]]
    /\ UNCHANGED <<table, Sequential>>

\* a commit that fails when the row to delete is already gone
delete_products_commit_Stale(tbl, product) ==
    IF Find(tbl, product.id) = <<>>
    THEN [status |-> HTTP_500_INTERNAL_SERVER_ERROR, table |-> tbl]
    ELSE [status |-> HTTP_204_NO_CONTENT, table |-> Delete(tbl, product)]

\* product.delete(), second half, and the 204: deleting a row that is already
\* absent is no error
delete_products_commit(tbl, product) ==
    [status |-> HTTP_204_NO_CONTENT, table |-> Delete(tbl, product)]

CommitDelete(w) ==
    /\ workers[w].pc = "commit"
    /\ workers[w].method = "DELETE"
    /\ LET done == delete_products_commit(table, workers[w].found[1]) IN
        /\ table' = done.table
        /\ workers' = [workers EXCEPT ![w].pc = "done", ![w].status = done.status]
    /\ UNCHANGED Sequential

\* Product.update finds no row left to persist the changes to
UpdateFails(tbl, product) == Find(tbl, product.id) = <<>>

\* an update that inserts the row again when it is gone
update_products_commit_Upsert(tbl, product) ==
    IF UpdateFails(tbl, product)
    THEN [status |-> HTTP_200_OK, table |-> Append(tbl, product)]
    ELSE [status |-> HTTP_200_OK, table |-> Update(tbl, product)]

\* product.update() and the 200; the error of an update without a row is
\* caught by no handler
update_products_commit(tbl, product) ==
    IF UpdateFails(tbl, product)
    THEN [status |-> HTTP_500_INTERNAL_SERVER_ERROR, table |-> tbl]
    ELSE [status |-> HTTP_200_OK, table |-> Update(tbl, product)]

CommitUpdate(w) ==
    /\ workers[w].pc = "commit"
    /\ workers[w].method = "PUT"
    /\ LET done == update_products_commit(table, workers[w].found[1]) IN
        /\ table' = done.table
        /\ workers' = [workers EXCEPT ![w].pc = "done", ![w].status = done.status]
    /\ UNCHANGED Sequential

NextConcurrent ==
    \E w \in Workers :
        \/ Receive(w)
        \/ FindProduct(w)
        \/ MarkDeleted(w)
        \/ DeserializeBody(w)
        \/ CommitDelete(w)
        \/ CommitUpdate(w)

SpecConcurrent == InitConcurrent /\ [][NextConcurrent]_vars

\* the workers that have answered a request of that method for that id
Answered(method, id) ==
    {w \in Workers : /\ workers[w].pc = "done"
                     /\ workers[w].method = method
                     /\ workers[w].product_id = id}

(***************************************************************************)
(* C17 as claimed: of the concurrent DELETEs of one stored id at most one  *)
(* answers 204, every other one answers 404 and none ends in an unhandled  *)
(* error.                                                                  *)
(***************************************************************************)
C17_AsClaimed ==
    \A id \in StoredIds :
        /\ Cardinality({w \in Answered("DELETE", id) :
                            workers[w].status = HTTP_204_NO_CONTENT}) <= 1
        /\ \A w \in Answered("DELETE", id) :
              workers[w].status \in {HTTP_204_NO_CONTENT, HTTP_404_NOT_FOUND}

(***************************************************************************)
(* C17 amended: each concurrent DELETE of a stored id answers 204 or 404   *)
(* and none ends in an unhandled error; a 204 means the product is gone,   *)
(* and a 404 is answered only after another DELETE of that id has answered *)
(* 204.  More than one DELETE can answer 204: each whose find ran before   *)
(* the first commit does.                                                  *)
(***************************************************************************)
C17_ConcurrentDelete ==
    \A id \in StoredIds :
        \A w \in Answered("DELETE", id) :
            /\ workers[w].status \in {HTTP_204_NO_CONTENT, HTTP_404_NOT_FOUND}
            /\ workers[w].status = HTTP_204_NO_CONTENT => ~Stored(table, id)
            /\ workers[w].status = HTTP_404_NOT_FOUND
                => \E v \in Workers \ {w} :
                      /\ workers[v].method = "DELETE"
                      /\ workers[v].product_id = id
                      /\ workers[v].status = HTTP_204_NO_CONTENT

\* two DELETEs of one id have both answered 204
C17_Witness ==
    \E id \in StoredIds :
        Cardinality({w \in Answered("DELETE", id) :
                        workers[w].status = HTTP_204_NO_CONTENT}) = 2

====
